---- MODULE Spec2Model ----
(***************************************************************************)
(* Tutor matching backend: the matching request of                         *)
(* learner/services/matching_service.py and its result cache and ranking   *)
(* collaborator of learner/services/ai_service.py.                         *)
(*                                                                         *)
(* Units.  Stored assessment scores are the numbers of the assessment row  *)
(* (the fixtures use 0..100); the matching service divides them by 10, so  *)
(* the thresholds 2, 4, 7, 8 of the rules are 20, 40, 70, 80 on the        *)
(* stored number.  cognitive_score is kept in tenths (11 is 1.1) and every *)
(* subject_score and final_score in hundredths (8500 is 85.0).             *)
(***************************************************************************)
EXTENDS Integers, Sequences, FiniteSets, TLC

\* ---------------------------------------------------------------- bounds
MaxMatches == 4
MaxEdits == 1
MaxRequests == 2
MaxTime == 3600
TimeStep == 1800
MaxJitter == 1
MaxPool == 4
MaxSubmits == 2
MaxCount == 25
MaxCalls == 7
MaxClock == 450
ClockStep == 150
MaxVerifiers == 2
MaxVerifyCalls == 3
MaxOtpClock == 3
MaxHandlers == 2
MaxPayCalls == 3

\* ------------------------------------------------------ program constants
CACHE_TTL == 3600
HourSeconds == 3600
TopN == 3
max_price == 2000

\* ------------------------------------------------------------ identifiers
LearnerIds == {"l1", "l2"}
TutorIds == {"t1", "t2", "t3", "t4", "t5"}
Reqs == {"r1", "r2"}
\* str(uuid) order of the tutor ids, used where the code sorts them
IdRank == [t \in TutorIds |-> CASE t = "t1" -> 1 [] t = "t2" -> 2 [] t = "t3" -> 3
                                [] t = "t4" -> 4 [] t = "t5" -> 5]
\* an id the collaborator may invent: no row of the teachers table has it
GhostId == "t9"

Traits == {"tcs", "tspi", "twmls", "tpo", "tecp", "tet", "tics", "trd"}
NoRow == [row |-> "none"]

\* ----------------------------------------------------------- the fixtures
\* the assessment create_test_data stores for its learner
FixtureAssessment ==
  [confidence |-> 25, anxiety |-> 75, processing_speed |-> 30, working_memory |-> 40,
   precision |-> 35, error_correction |-> 45, exploration |-> 60, impulsivity |-> 70,
   logical_reasoning |-> 55, hypothetical_reasoning |-> 50]
Assessments ==
  {FixtureAssessment,
   [confidence |-> 85, anxiety |-> 15, processing_speed |-> 80, working_memory |-> 75,
    precision |-> 70, error_correction |-> 90, exploration |-> 75, impulsivity |-> 30,
    logical_reasoning |-> 85, hypothetical_reasoning |-> 80]}

PerfectPedagogy ==
  [tcs |-> "HIGH", tspi |-> "HIGH", twmls |-> "HIGH", tpo |-> "HIGH",
   tecp |-> "HIGH", tet |-> "LOW", tics |-> "HIGH", trd |-> "HIGH"]
GoodPedagogy ==
  [tcs |-> "HIGH", tspi |-> "LOW", twmls |-> "HIGH", tpo |-> "HIGH",
   tecp |-> "LOW", tet |-> "LOW", tics |-> "HIGH", trd |-> "LOW"]
PoorPedagogy ==
  [tcs |-> "LOW", tspi |-> "LOW", twmls |-> "LOW", tpo |-> "LOW",
   tecp |-> "LOW", tet |-> "HIGH", tics |-> "LOW", trd |-> "LOW"]
\* a profile that is still being filled in: trd is not answered yet
PartialPedagogy == [PerfectPedagogy EXCEPT !.trd = "NULL"]

\* the learner's subjects column after json.loads
LearnerSubjects == <<"Mathematics", "Physics", "Chemistry">>

PerfectTutor == [lesson_price |-> 800, subjects |-> <<"Mathematics", "Physics", "Algebra">>,
                 pedagogy |-> PerfectPedagogy]
GoodTutor == [lesson_price |-> 600, subjects |-> <<"Mathematics", "Chemistry", "Science">>,
              pedagogy |-> GoodPedagogy]
PoorTutor == [lesson_price |-> 400, subjects |-> <<"Biology", "English", "History">>,
              pedagogy |-> PoorPedagogy]
\* a second tutor with the Good fingerprint and subjects, at another price
TwinTutor == [GoodTutor EXCEPT !.lesson_price = 900]
PartialTutor == [PerfectTutor EXCEPT !.pedagogy = PartialPedagogy]

FixtureRoster ==
  [t \in TutorIds |-> CASE t = "t1" -> PerfectTutor [] t = "t2" -> GoodTutor
                        [] t = "t3" -> PoorTutor [] t = "t4" -> TwinTutor
                        [] t = "t5" -> PartialTutor]
\* the row, the trait and the new price the edits of the model use
EditedTutors == {"t3"}
\* ------------------------------------------------------------- the scorer
\* mutant of Qualified: the isnull filters are left out
QualifiedAny(rows) == {t \in TutorIds : rows[t] # NoRow}

\* _get_qualified_tutors: the rows whose 8 pedagogy traits are all non-null
Qualified(rows) ==
  {t \in TutorIds : rows[t] # NoRow /\ \A tr \in Traits : rows[t].pedagogy[tr] # "NULL"}

\* mutant of BandRule: the bonus of a severe case is added to the 0.1 of a
\* plain match
BandRuleStackedBonus(x, trait, lowWants, highWants) ==
  IF x <= 40 /\ trait = lowWants THEN 11 + (IF x <= 20 THEN 2 ELSE 0)
  ELSE IF x >= 70 /\ trait = highWants THEN 11 + (IF x >= 80 THEN 2 ELSE 0)
  ELSE IF 40 < x /\ x < 70 /\ trait = "HIGH" THEN 8
  ELSE IF 40 < x /\ x < 70 /\ trait = "LOW" THEN 5
  ELSE 0

\* one of the rules with a low, a high and a mid band: full credit when the
\* band meets the trait it asks for, 0.8 / 0.5 in the mid band
BandRule(x, trait, lowWants, highWants) ==
  IF x <= 40 /\ trait = lowWants THEN 10 + (IF x <= 20 THEN 2 ELSE 1)
  ELSE IF x >= 70 /\ trait = highWants THEN 10 + (IF x >= 80 THEN 2 ELSE 1)
  ELSE IF 40 < x /\ x < 70 /\ trait = "HIGH" THEN 8
  ELSE IF 40 < x /\ x < 70 /\ trait = "LOW" THEN 5
  ELSE 0

ConfidenceRule(conf, anx, tcs) ==
  IF conf <= 40 \/ anx >= 70
    THEN (IF tcs = "HIGH" THEN 10 + (IF anx >= 80 THEN 2 ELSE 1) ELSE 3)
  ELSE IF conf >= 70 /\ anx <= 40
    THEN (IF tcs = "LOW" THEN 10 + (IF conf >= 80 THEN 2 ELSE 1) ELSE 3)
  ELSE IF 40 < conf /\ conf < 70 /\ 40 < anx /\ anx < 70
    THEN (IF tcs = "HIGH" THEN 8 ELSE 5)
  ELSE 0

ExplorationRule(exp, prec, tet) ==
  IF exp >= 70 /\ tet = "LOW" THEN 10 + (IF exp >= 80 THEN 2 ELSE 1)
  ELSE IF exp <= 40 /\ tet = "HIGH" THEN 10 + (IF exp <= 20 THEN 2 ELSE 1)
  ELSE IF 40 < exp /\ exp < 70
    THEN (IF prec <= 40 /\ tet = "HIGH" THEN 8
          ELSE IF prec > 40 /\ tet = "LOW" THEN 8
          ELSE 4)
  ELSE 0

\* reasoning = (logical + hypothetical) / 2, compared on the doubled number
ReasoningRule(sum2, trd) ==
  IF sum2 >= 140 /\ trd = "HIGH" THEN 10 + (IF sum2 >= 160 THEN 2 ELSE 1)
  ELSE IF sum2 <= 80 /\ trd = "LOW" THEN 10 + (IF sum2 <= 40 THEN 2 ELSE 1)
  ELSE IF 80 < sum2 /\ sum2 < 140 /\ trd = "HIGH" THEN 8
  ELSE IF 80 < sum2 /\ sum2 < 140 /\ trd = "LOW" THEN 5
  ELSE 0

Min(a, b) == IF a <= b THEN a ELSE b
Max(a, b) == IF a >= b THEN a ELSE b

\* _calculate_enhanced_cognitive_score, in tenths
EnhancedCognitiveScore(cog, ped) ==
  Min(ConfidenceRule(cog.confidence, cog.anxiety, ped.tcs)
      + BandRule(cog.processing_speed, ped.tspi, "HIGH", "LOW")
      + BandRule(cog.working_memory, ped.twmls, "HIGH", "LOW")
      + BandRule(cog.precision, ped.tpo, "HIGH", "LOW")
      + BandRule(cog.error_correction, ped.tecp, "HIGH", "LOW")
      + ExplorationRule(cog.exploration, cog.precision, ped.tet)
      + BandRule(cog.impulsivity, ped.tics, "LOW", "HIGH")
      + ReasoningRule(cog.logical_reasoning + cog.hypothetical_reasoning, ped.trd),
      100)

\* s.lower().strip() on the subject names the model uses
Lower(s) ==
  CASE s = "Mathematics" -> "mathematics" [] s = "Physics" -> "physics"
    [] s = "Chemistry" -> "chemistry" [] s = "Algebra" -> "algebra"
    [] s = "Science" -> "science" [] s = "Biology" -> "biology"
    [] s = "English" -> "english" [] s = "History" -> "history"
    [] s = "Maths" -> "maths" [] s = "MATHEMATICS" -> "mathematics"
    [] s = " physics " -> "physics"
    [] OTHER -> s

SeqSet(s) == {s[i] : i \in DOMAIN s}

\* mutant of SubjectScore: the overlap is divided by the length of the
\* learner's list, not by the number of different names in it
SubjectScoreByListLength(learner_subjects, tutor_subjects) ==
  IF learner_subjects = <<>> \/ tutor_subjects = <<>> THEN 0
  ELSE LET learner_set == {Lower(x) : x \in SeqSet(learner_subjects)}
           tutor_set == {Lower(x) : x \in SeqSet(tutor_subjects)}
       IN (Cardinality(learner_set \cap tutor_set) * 1000) \div Len(learner_subjects)

\* _calculate_subject_score, in hundredths
SubjectScore(learner_subjects, tutor_subjects) ==
  IF learner_subjects = <<>> \/ tutor_subjects = <<>> THEN 0
  ELSE LET learner_set == {Lower(x) : x \in SeqSet(learner_subjects)}
           tutor_set == {Lower(x) : x \in SeqSet(tutor_subjects)}
           overlap == Cardinality(learner_set \cap tutor_set)
           total == Cardinality(learner_set)
       IN IF total > 0 THEN (overlap * 1000) \div total ELSE 0

\* price_score = max(0, 10 - price / max_price * 10), in hundredths
PriceScore(price) == Max(0, 1000 - (price * 1000) \div max_price)

\* _calculate_compatibility_scores: the tutors_data entry of one loaded tutor
TutorData(id, row, cog) ==
  [id |-> id, price |-> row.lesson_price,
   cognitive_score |-> EnhancedCognitiveScore(cog, row.pedagogy),
   subject_score |-> SubjectScore(LearnerSubjects, row.subjects),
   price_score |-> PriceScore(row.lesson_price)]

\* ------------------------------------------------------------ cache keys
RECURSIVE SortedIds(_)
\* sorted([str(t.id) for t in tutors])
SortedIds(S) ==
  IF S = {} THEN <<>>
  ELSE LET m == CHOOSE x \in S : \A y \in S : IdRank[x] <= IdRank[y]
       IN <<m>> \o SortedIds(S \ {m})

\* _generate_tutors_hash: md5 of the sorted ids joined by '|' (md5 taken as injective)
TutorsHash(tutors) == SortedIds(DOMAIN tutors)

\* _generate_cognitive_hash: md5 of the ten scores joined by '|'
CognitiveHash(a) ==
  <<a.confidence, a.anxiety, a.processing_speed, a.working_memory, a.precision,
    a.error_correction, a.exploration, a.impulsivity, a.logical_reasoning,
    a.hypothetical_reasoning>>

\* timezone.now().strftime("%Y%m%d%H")
HourComponent(t) == t \div HourSeconds

\* mutant of GenerateCacheKey: the cognitive hash is left out of key_data
GenerateCacheKeyNoCognitive(learner_id, tutors_hash, cognitive_hash, t) ==
  [learner |-> learner_id, tutors |-> tutors_hash, cognitive |-> <<>>,
   hour |-> HourComponent(t)]

\* mutant of GenerateCacheKey: the hour component is left out of key_data
GenerateCacheKeyNoHour(learner_id, tutors_hash, cognitive_hash, t) ==
  [learner |-> learner_id, tutors |-> tutors_hash, cognitive |-> cognitive_hash,
   hour |-> 0]

\* AIMatchingService.generate_cache_key at clock time t
GenerateCacheKey(learner_id, tutors_hash, cognitive_hash, t) ==
  [learner |-> learner_id, tutors |-> tutors_hash, cognitive |-> cognitive_hash,
   hour |-> HourComponent(t)]

\* -------------------------------------------------------- the result cache
\* An entry is [key, value, expires, src]; src is a history field: the inputs
\* (loaded tutor rows and assessment) the value was ranked from.
\* cache.get(key) at time t: the live entries under key (none is a miss)
CacheGet(c, key, t) == {e \in c : e.key = key /\ e.expires > t}

\* mutant of CacheSet: the entry is added beside the one already under the key
CacheSetAppend(c, key, value, t, src) ==
  c \cup {[key |-> key, value |-> value, expires |-> t + CACHE_TTL, src |-> src]}

\* cache.set(key, value, 3600) at time t
CacheSet(c, key, value, t, src) ==
  {e \in c : e.key # key}
    \cup {[key |-> key, value |-> value, expires |-> t + CACHE_TTL, src |-> src]}

\* ------------------------------------------------- the ranking collaborator
\* What json.loads gives for the collaborator's text.  A value is a scalar, an
\* array or an object; an object's "matches" is absent, a value without len()
\* (a number, null) or a list of entries; an entry is a dict, with or without
\* "tutor_id", or something that is not a dict.
NoMatches == [kind |-> "absent", items |-> <<>>]
Entry(id) == [kind |-> "dict", has_id |-> TRUE, tutor_id |-> id, final_score |-> 8500]
EntryNoId == [kind |-> "dict", has_id |-> FALSE, tutor_id |-> "none", final_score |-> 8500]
EntryNotDict == [kind |-> "nondict", has_id |-> FALSE, tutor_id |-> "none", final_score |-> 0]

\* the collaborator's usual answer of n entries: t1, t2, t3, t4, t1, ...
RankCycle == <<"t1", "t2", "t3", "t4">>
CycleList(n) == [i \in 1..n |-> Entry(RankCycle[((i - 1) % Len(RankCycle)) + 1])]

NoJson == [type |-> "none", matches |-> NoMatches]

\* what one call of the collaborator can do
Outcomes ==
  {[kind |-> k, json |-> NoJson] : k \in {"unavailable", "raises", "nonjson"}}
    \cup {[kind |-> "json", json |-> j] :
            j \in {[type |-> "scalar", matches |-> NoMatches],
                   [type |-> "array", matches |-> NoMatches],
                   [type |-> "object", matches |-> NoMatches],
                   [type |-> "object", matches |-> [kind |-> "notsized", items |-> <<>>]]}
                    \cup {[type |-> "object", matches |-> [kind |-> "list", items |-> m]] :
                            m \in {CycleList(n) : n \in {TopN, MaxMatches}}
                                    \cup {<<Entry("t5"), Entry("t2"), Entry(GhostId),
                                            Entry("t1")>>,
                                          <<Entry("t1"), Entry("t1")>>,
                                          <<Entry("t1"), EntryNoId>>,
                                          <<EntryNotDict>>}}}

NoOutcome == [kind |-> "none", json |-> NoJson]

\* the ai_result dicts
NoResult == [matches |-> NoMatches, cache_hit |-> FALSE, ai_processing_time_ms |-> 0]

\* get_tutor_matches after the cache miss: TRUE when the try block reaches its
\* return (client there, call returned, json.loads succeeded, result.get and
\* len(...) of the log line did not raise)
AICallSucceeds(o) ==
  /\ o.kind = "json"
  /\ o.json.type = "object"
  /\ o.json.matches.kind # "notsized"

\* the result get_tutor_matches returns and caches: metadata added to the dict
\* (the elapsed time is some positive number, written 1)
AIResult(o) == [matches |-> o.json.matches, cache_hit |-> FALSE, ai_processing_time_ms |-> 1]

\* whether the collaborator's API is called at all (no client: raise before it)
AICalled(o) == o.kind # "unavailable"

\* ------------------------------------------------------ fallback ranking
\* mutant of KeyBefore: the random factor is the first component of the key
KeyBeforeJitterFirst(a, b, jitter) ==
  \/ jitter[a.id] > jitter[b.id]
  \/ /\ jitter[a.id] = jitter[b.id]
     /\ \/ a.cognitive_score > b.cognitive_score
        \/ /\ a.cognitive_score = b.cognitive_score
           /\ \/ a.subject_score > b.subject_score
              \/ a.subject_score = b.subject_score /\ a.price < b.price

\* mutant of KeyBefore: price is compared before the random factor
KeyBeforePriceFirst(a, b, jitter) ==
  \/ a.cognitive_score > b.cognitive_score
  \/ /\ a.cognitive_score = b.cognitive_score
     /\ \/ a.subject_score > b.subject_score
        \/ /\ a.subject_score = b.subject_score
           /\ \/ a.price < b.price
              \/ a.price = b.price /\ jitter[a.id] > jitter[b.id]

\* the sort key (-cognitive_score, -subject_score, -random_factor, price):
\* a sorts strictly before b
KeyBefore(a, b, jitter) ==
  \/ a.cognitive_score > b.cognitive_score
  \/ /\ a.cognitive_score = b.cognitive_score
     /\ \/ a.subject_score > b.subject_score
        \/ /\ a.subject_score = b.subject_score
           /\ \/ jitter[a.id] > jitter[b.id]
              \/ jitter[a.id] = jitter[b.id] /\ a.price < b.price

RECURSIVE SortedPrefixes(_, _, _)
\* sorted(tutors_data, key)[:n]: the first n of the sorted list.  sorted() is
\* stable and the queryset has no order_by, so tutors equal on the whole key
\* come in any order.
SortedPrefixes(D, jitter, n) ==
  IF D = {} \/ n = 0 THEN {<<>>}
  ELSE UNION {{<<m>> \o rest : rest \in SortedPrefixes(D \ {m}, jitter, n - 1)} :
              m \in {x \in D : \A y \in D : ~KeyBefore(y, x, jitter)}}

FallbackEntry(t) ==
  [kind |-> "dict", has_id |-> TRUE, tutor_id |-> t.id,
   final_score |-> t.cognitive_score * 100 + t.subject_score]

\* _fallback_matching for one draw of the random factors and one sorted order
FallbackResult(sorted_top) ==
  [matches |-> [kind |-> "list",
                items |-> [i \in DOMAIN sorted_top |-> FallbackEntry(sorted_top[i])]],
   cache_hit |-> FALSE, ai_processing_time_ms |-> 0]

\* every result _fallback_matching can return for tutors_data D
FallbackResults(D) ==
  UNION {{FallbackResult(srt) : srt \in SortedPrefixes(D, jitter, TopN)} :
         jitter \in [{d.id : d \in D} -> 0..MaxJitter]}

\* ------------------------------------------------------------ the response
ValueError(msg) == [status |-> "ValueError", success |-> FALSE, matches |-> <<>>, error |-> msg]
Unhandled == [status |-> "exception", success |-> FALSE, matches |-> <<>>, error |-> "KeyError"]
NoResponse == [status |-> "none", success |-> FALSE, matches |-> <<>>, error |-> ""]

\* TutorMatchingView.get: the HTTP status it answers with
HttpStatus(response) ==
  CASE response.status = "ok" -> 200
    [] response.status = "ValueError" -> 400
    [] OTHER -> 500

\* ai_result.get('matches', [])
MatchItems(ai_result) ==
  IF ai_result.matches.kind = "list" THEN ai_result.matches.items ELSE <<>>

\* match['tutor_id'] raises: KeyError on a dict without it, TypeError otherwise
EntryRaises(m) == m.kind # "dict" \/ ~m.has_id

\* TutorSerializer(tutor).data of a loaded row
Serialized(id, row) == [id |-> id, lesson_price |-> row.lesson_price]

\* mutant of Hydrate: the loop ends at the first entry whose tutor is not loaded
HydrateUntilUnknown(items, tutors) ==
  LET known == {i \in DOMAIN items : \A j \in 1..i : items[j].tutor_id \in DOMAIN tutors}
  IN [i \in 1..Cardinality(known) |->
        [tutor |-> Serialized(items[i].tutor_id, tutors[items[i].tutor_id]),
         compatibility_score |-> items[i].final_score]]

RECURSIVE Hydrate(_, _)
\* the loop of _prepare_response over entries that do not raise
Hydrate(items, tutors) ==
  IF items = <<>> THEN <<>>
  ELSE LET m == Head(items)
       IN (IF m.tutor_id \in DOMAIN tutors
             THEN <<[tutor |-> Serialized(m.tutor_id, tutors[m.tutor_id]),
                     compatibility_score |-> m.final_score]>>
             ELSE <<>>) \o Hydrate(Tail(items), tutors)

\* _prepare_response(ai_result, tutors)
PrepareResponse(ai_result, tutors) ==
  LET items == MatchItems(ai_result)
  IN IF \E i \in DOMAIN items : EntryRaises(items[i]) THEN Unhandled
     ELSE [status |-> "ok", success |-> TRUE, matches |-> Hydrate(items, tutors), error |-> ""]

\* ---------------------------------------------------------------- state
VARIABLES
  teachers,      \* teachers table joined with teacher_pedagogy_profile: id -> row
  assessments,   \* cognitive assessment of each learner, or NoRow
  cache,         \* the result cache (django.core.cache)
  now,           \* the clock, in seconds
  req,           \* each request slot: the call of get_best_matches it runs
  prev,          \* history: the call that returned last
  edits,         \* number of database edits so far
  served,        \* number of matching requests started so far
  calc,          \* a scoring or ranking function under test: its input and result
  submit         \* each assessment submission: the call of CognitiveAssessmentView.post

vars == <<teachers, assessments, cache, now, req, prev, edits, served, calc, submit>>

\* the submissions of the model
Subs == 1..MaxSubmits

\* A submission.  pc: idle, save (the existence check and the serializer
\* passed, nothing is saved yet) or done; status and detail are the response.
IdleSubmit == [pc |-> "idle", learner |-> "none", payload |-> NoRow, status |-> 0, detail |-> ""]

\* A slot.  pc: idle, rank (cache missed, collaborator not yet called) or done
\* (the call has returned or raised; the slot takes the next request).
\* path: how the ranking was obtained (invalid, hit, ai, fallback).  scored,
\* cacheReads, cacheWrites, aiCalls and outcome record what the call did; from
\* is the src of the cache entry a hit was served from, at the clock time of
\* the call.
IdleReq ==
  [pc |-> "idle", learner |-> "none", tutors |-> <<>>, assessment |-> NoRow,
   key |-> [learner |-> "none"], path |-> "none", outcome |-> NoOutcome, result |-> NoResult,
   response |-> NoResponse, scored |-> FALSE, cacheReads |-> 0, cacheWrites |-> 0,
   aiCalls |-> 0, from |-> [tutors |-> <<>>, assessment |-> NoRow], at |-> 0]

NoPrev == [valid |-> FALSE]

Init ==
  /\ teachers \in {FixtureRoster, [t \in TutorIds |-> IF t = "t5" THEN PartialTutor ELSE NoRow]}
  /\ assessments = [l \in LearnerIds |-> IF l = "l1" THEN FixtureAssessment ELSE NoRow]
  /\ cache = {}
  /\ now = 0
  /\ req = [r \in Reqs |-> IdleReq]
  /\ prev = NoPrev
  /\ edits = 0
  /\ served = 0
  /\ calc = [fn |-> "none"]
  /\ submit = [s \in Subs |-> IdleSubmit]

\* ------------------------------------------------------- get_best_matches
\* mutant of Validate: the tutor pool is checked before the assessment
ValidateTutorsFirst(assessment, tutors) ==
  IF DOMAIN tutors = {} THEN "No qualified tutors available"
  ELSE IF assessment = NoRow THEN "Cognitive assessment required"
  ELSE ""

\* steps 1 and 2 of get_best_matches: the error it raises, or "" to go on
Validate(assessment, tutors) ==
  IF assessment = NoRow THEN "Cognitive assessment required"
  ELSE IF DOMAIN tutors = {} THEN "No qualified tutors available"
  ELSE ""

\* get_best_matches for learner l up to the point where the cache has answered:
\* validation, loading, scoring, key and the lookup of get_tutor_matches.
\* rows and assessment are the tables read, c the cache, t the clock.
BeginMatch(l, assessment, rows, c, t) ==
  LET tutors == [id \in Qualified(rows) |-> rows[id]]
      err == Validate(assessment, tutors)
  IN IF err # ""
       THEN [IdleReq EXCEPT !.pc = "done", !.learner = l, !.path = "invalid", !.at = t,
                            !.response = ValueError(err)]
       ELSE LET key == GenerateCacheKey(l, TutorsHash(tutors), CognitiveHash(assessment), t)
                found == CacheGet(c, key, t)
                started == [IdleReq EXCEPT !.learner = l, !.tutors = tutors, !.at = t,
                                           !.assessment = assessment, !.key = key,
                                           !.scored = TRUE, !.cacheReads = 1]
            IN IF found # {}
                 THEN LET e == CHOOSE x \in found : TRUE
                      IN [started EXCEPT !.pc = "done", !.path = "hit", !.result = e.value,
                                         !.from = e.src,
                                         !.response = PrepareResponse(e.value, tutors)]
                 ELSE [started EXCEPT !.pc = "rank"]

\* tutors_data of a request
TutorsData(q) == {TutorData(id, q.tutors[id], q.assessment) : id \in DOMAIN q.tutors}

\* mutant of Ranked: a failed collaborator call is tried once more
RankedWithRetry(q, o, result, path) ==
  [q EXCEPT !.pc = "done", !.path = path, !.outcome = o, !.result = result,
            !.aiCalls = @ + (IF ~AICalled(o) THEN 0 ELSE IF path = "fallback" THEN 2 ELSE 1),
            !.cacheWrites = @ + (IF path = "ai" THEN 1 ELSE 0),
            !.response = PrepareResponse(result, q.tutors)]

\* the request after the collaborator answered o and the call was ranked as
\* result, by the collaborator (stored) or by the fallback
Ranked(q, o, result, path) ==
  [q EXCEPT !.pc = "done", !.path = path, !.outcome = o, !.result = result,
            !.aiCalls = @ + (IF AICalled(o) THEN 1 ELSE 0),
            !.cacheWrites = @ + (IF path = "ai" THEN 1 ELSE 0),
            !.response = PrepareResponse(result, q.tutors)]

\* what the history keeps of a call that returned
Summary(q) ==
  IF q.path = "invalid" THEN NoPrev
  ELSE [valid |-> TRUE, learner |-> q.learner, tutors |-> TutorsHash(q.tutors),
        cognitive |-> CognitiveHash(q.assessment), hour |-> HourComponent(q.at),
        path |-> q.path, ids |-> DOMAIN q.tutors, scores |-> q.assessment,
        key |-> q.key]

\* a request arrives and a free worker takes it: slot r1, or slot r2 while r1
\* is still ranking
StartMatch(r) ==
  \E l \in LearnerIds :
    /\ req[r].pc \in {"idle", "done"}
    /\ r = "r2" => req["r1"].pc = "rank"
    /\ served < MaxRequests
    /\ req' = [req EXCEPT ![r] = BeginMatch(l, assessments[l], teachers, cache, now)]
    /\ prev' = IF req[r].pc = "done" THEN Summary(req[r]) ELSE prev
    /\ served' = served + 1
    /\ UNCHANGED <<teachers, assessments, cache, now, edits, calc, submit>>

\* the rest of get_tutor_matches after a miss, when the try block returns:
\* the result is cached, then get_best_matches prepares the response
RankByAI(r) ==
  \E o \in Outcomes :
    /\ req[r].pc = "rank"
    /\ AICallSucceeds(o)
    /\ cache' = CacheSet(cache, req[r].key, AIResult(o), now,
                         [tutors |-> req[r].tutors, assessment |-> req[r].assessment])
    /\ req' = [req EXCEPT ![r] = Ranked(req[r], o, AIResult(o), "ai")]
    /\ UNCHANGED <<teachers, assessments, now, prev, edits, served, calc, submit>>

\* get_tutor_matches raises: get_best_matches catches it and ranks locally
RankByFallback(r) ==
  \E o \in Outcomes :
    /\ req[r].pc = "rank"
    /\ ~AICallSucceeds(o)
    /\ \E result \in FallbackResults(TutorsData(req[r])) :
         req' = [req EXCEPT ![r] = Ranked(req[r], o, result, "fallback")]
    /\ UNCHANGED <<teachers, assessments, cache, now, prev, edits, served, calc, submit>>

\* --------------------------------------------------------- the environment
Tick ==
  /\ now + TimeStep <= MaxTime
  /\ now' = now + TimeStep
  /\ UNCHANGED <<teachers, assessments, cache, req, prev, edits, served, calc, submit>>

\* admin: a teacher row is deleted (its pedagogy profile cascades)
DeleteTeacher ==
  \E t \in EditedTutors :
    /\ edits < MaxEdits
    /\ teachers[t] # NoRow
    /\ teachers' = [teachers EXCEPT ![t] = NoRow]
    /\ edits' = edits + 1
    /\ UNCHANGED <<assessments, cache, now, req, prev, served, calc, submit>>

\* a tutor signs up and completes the pedagogy questionnaire
CreateTeacher ==
  \E t \in EditedTutors :
    /\ edits < MaxEdits
    /\ teachers[t] = NoRow
    /\ teachers' = [teachers EXCEPT ![t] = GoodTutor]
    /\ edits' = edits + 1
    /\ UNCHANGED <<assessments, cache, now, req, prev, served, calc, submit>>

\* admin or questionnaire: one trait of a pedagogy profile is set or cleared
UpdatePedagogy ==
  \E t \in EditedTutors, tr \in {"trd"}, v \in {"HIGH", "LOW", "NULL"} :
    /\ edits < MaxEdits
    /\ teachers[t] # NoRow
    /\ teachers[t].pedagogy[tr] # v
    /\ teachers' = [teachers EXCEPT ![t].pedagogy[tr] = v]
    /\ edits' = edits + 1
    /\ UNCHANGED <<assessments, cache, now, req, prev, served, calc, submit>>

\* the tutor's profile update changes lesson_price
UpdatePrice ==
  \E t \in EditedTutors, p \in {2500} :
    /\ edits < MaxEdits
    /\ teachers[t] # NoRow
    /\ teachers[t].lesson_price # p
    /\ teachers' = [teachers EXCEPT ![t].lesson_price = p]
    /\ edits' = edits + 1
    /\ UNCHANGED <<assessments, cache, now, req, prev, served, calc, submit>>

\* the stored assessment is deleted in the admin and the learner takes the
\* assessment again: the row now holds other scores
EditAssessment ==
  \E l \in LearnerIds, a \in Assessments :
    /\ edits < MaxEdits
    /\ assessments[l] # NoRow
    /\ assessments[l] # a
    /\ assessments' = [assessments EXCEPT ![l] = a]
    /\ edits' = edits + 1
    /\ UNCHANGED <<teachers, cache, now, req, prev, served, calc, submit>>

Edit ==
  \/ DeleteTeacher
  \/ CreateTeacher
  \/ UpdatePedagogy
  \/ UpdatePrice
  \/ EditAssessment

\* requests are served one at a time: slot r1 only
Next ==
  \/ StartMatch("r1")
  \/ RankByAI("r1")
  \/ RankByFallback("r1")
  \/ Tick
  \/ Edit

Spec == Init /\ [][Next]_vars

\* ---------------------------------------- _fallback_matching on its own
\* tutors_data entries to rank: cognitive 8.0 / 4.0 / 0 at one subject score
\* and price, then the same cognitive score with a lower subject score or a
\* higher price, and a high cognitive score with both worse
FallbackKinds ==
  <<[cognitive_score |-> 80, subject_score |-> 500, price |-> 400],
    [cognitive_score |-> 40, subject_score |-> 500, price |-> 400],
    [cognitive_score |-> 0, subject_score |-> 500, price |-> 400],
    [cognitive_score |-> 40, subject_score |-> 0, price |-> 400],
    [cognitive_score |-> 40, subject_score |-> 500, price |-> 800],
    [cognitive_score |-> 80, subject_score |-> 0, price |-> 800]>>

Candidate(id, k) ==
  [id |-> id, price |-> k.price, cognitive_score |-> k.cognitive_score,
   subject_score |-> k.subject_score, price_score |-> PriceScore(k.price)]

PoolIds == {t \in TutorIds : IdRank[t] <= MaxPool}

\* one call of _fallback_matching(tutors_data): the random factors are drawn,
\* the list is sorted and its first 3 entries are returned
ApplyFallback ==
  /\ calc.fn = "fallback"
  /\ ~calc.done
  /\ \E jitter \in [PoolIds -> 0..MaxJitter] :
       \E sorted_top \in SortedPrefixes(calc.in, jitter, TopN) :
         calc' = [calc EXCEPT !.done = TRUE, !.jitter = jitter,
                              !.out = FallbackResult(sorted_top)]
  /\ UNCHANGED <<teachers, assessments, cache, now, req, prev, edits, served, submit>>

\* ------------------------------------------- CognitiveAssessmentView.post
\* mutant of UniqueLearner: the table has no unique constraint on learner
UniqueLearnerUnchecked(table, l) == TRUE

\* the unique constraint of the OneToOneField: a row for l can be inserted
UniqueLearner(table, l) == table[l] = NoRow

\* the response body of a created assessment
AssessmentResponse(scores) == "created"

\* post up to the serializer: the learner's existing assessment is looked up
\* and the body validated
StartSubmit(s) ==
  \E l \in LearnerIds, body \in ({NoRow} \cup Assessments) :
    /\ submit[s].pc = "idle"
    /\ submit' = [submit EXCEPT ![s] =
         IF assessments[l] # NoRow
           THEN [pc |-> "done", learner |-> l, payload |-> body, status |-> 400,
                 detail |-> "Assessment already completed."]
         ELSE IF body = NoRow
           THEN [pc |-> "done", learner |-> l, payload |-> body, status |-> 400,
                 detail |-> "serializer.errors"]
         ELSE [pc |-> "save", learner |-> l, payload |-> body, status |-> 0, detail |-> ""]]
    /\ UNCHANGED <<teachers, assessments, cache, now, req, prev, edits, served, calc>>

\* the try block of post: the assessment is built and saved; the
\* IntegrityError of a second row for the learner ends in the 500 answer
SaveSubmit(s) ==
  /\ submit[s].pc = "save"
  /\ IF UniqueLearner(assessments, submit[s].learner)
       THEN /\ assessments' = [assessments EXCEPT ![submit[s].learner] = submit[s].payload]
            /\ submit' = [submit EXCEPT ![s].pc = "done", ![s].status = 201,
                                         ![s].detail = AssessmentResponse(submit[s].payload)]
       ELSE /\ assessments' = assessments
            /\ submit' = [submit EXCEPT ![s].pc = "done", ![s].status = 500,
                                         ![s].detail = "An error occurred while processing the assessment"]
  /\ UNCHANGED <<teachers, cache, now, req, prev, edits, served, calc>>

\* admin: a stored assessment is deleted
DeleteAssessment ==
  \E l \in LearnerIds :
    /\ edits < MaxEdits
    /\ assessments[l] # NoRow
    /\ assessments' = [assessments EXCEPT ![l] = NoRow]
    /\ edits' = edits + 1
    /\ UNCHANGED <<teachers, cache, now, req, prev, served, calc, submit>>

NextAssess ==
  \/ \E s \in Subs : StartSubmit(s)
  \/ \E s \in Subs : SaveSubmit(s)
  \/ DeleteAssessment

SpecAssess == Init /\ [][NextAssess]_vars

\* --------------------- _calculate_enhanced_cognitive_score on its own
\* stored scores to draw from: both sides of every threshold of the rules on
\* the 0-100 scale, and 3, 5 and 8 of a 0-10 scale
ScoreGrid == {0, 3, 5, 8, 20, 21, 40, 41, 69, 70, 79, 80, 100}

\* an assessment row built from two stored scores, so that each rule with two
\* inputs (confidence, exploration, reasoning) sees every pair of them
RowOf(a, b) ==
  [confidence |-> a, anxiety |-> b, processing_speed |-> a, working_memory |-> b,
   precision |-> a, error_correction |-> b, exploration |-> b, impulsivity |-> a,
   logical_reasoning |-> a, hypothetical_reasoning |-> b]

\* the complete fingerprints: every trait HIGH or LOW
Fingerprints == [Traits -> {"HIGH", "LOW"}]

\* the cognitive part of _calculate_compatibility_scores for one tutor: the
\* profile of _prepare_learner_profile goes through the scorer
ApplyScore ==
  /\ calc.fn = "score"
  /\ ~calc.done
  /\ calc' = [calc EXCEPT !.done = TRUE,
                          !.out = EnhancedCognitiveScore(calc.row, calc.pedagogy)]
  /\ UNCHANGED <<teachers, assessments, cache, now, req, prev, edits, served, submit>>

\* ------------------------------------ _calculate_subject_score on its own
\* A subjects column: SQL NULL ("null"), the empty text ("empty"), text that
\* is not JSON ("nonjson"), or JSON text, named by the value json.loads gives:
\* a number ("number", and "zero" for 0), true ("true"), null ("jsonnull"), a
\* string, an object or a list.  items are what Python iterates over: the
\* entries of a list, the characters of a string, the keys of an object.
Column(kind, items) == [kind |-> kind, items |-> items]
Str(s) == [isStr |-> TRUE, s |-> s]
NameList(names) == Column("list", [i \in DOMAIN names |-> Str(names[i])])

\* json.loads(text) if text else [], with [] for text that is not JSON
ParseSubjects(col) ==
  IF col.kind \in {"null", "empty", "nonjson"} THEN Column("list", <<>>) ELSE col

\* Python's truth value of a parsed value
Truthy(v) ==
  CASE v.kind \in {"zero", "jsonnull"} -> FALSE
    [] v.kind \in {"string", "object", "list"} -> v.items # <<>>
    [] OTHER -> TRUE

\* set(s.lower().strip() for s in v) raises: v cannot be iterated (TypeError)
\* or an element has no lower() (AttributeError)
SetRaises(v) ==
  \/ v.kind \notin {"string", "object", "list"}
  \/ \E i \in DOMAIN v.items : ~v.items[i].isStr

Names(v) == [i \in DOMAIN v.items |-> v.items[i].s]

\* _calculate_subject_score(learner_subjects, tutor_subjects_str): what it
\* returns (in hundredths), or that it raises
CalculateSubjectScore(learner_subjects, tutor_col) ==
  IF ~Truthy(learner_subjects) \/ tutor_col.kind \in {"null", "empty"}
    THEN [raises |-> FALSE, score |-> 0]
  ELSE LET tutor_subjects == ParseSubjects(tutor_col)
       IN IF ~Truthy(tutor_subjects) THEN [raises |-> FALSE, score |-> 0]
          ELSE IF SetRaises(learner_subjects) \/ SetRaises(tutor_subjects)
            THEN [raises |-> TRUE, score |-> 0]
          ELSE [raises |-> FALSE,
                score |-> SubjectScore(Names(learner_subjects), Names(tutor_subjects))]

\* the subject part of matching for one tutor: the learner's column is parsed
\* by _prepare_learner_profile, then _calculate_subject_score is called
ApplySubject ==
  /\ calc.fn = "subject"
  /\ ~calc.done
  /\ calc' = [calc EXCEPT !.done = TRUE,
                          !.out = CalculateSubjectScore(ParseSubjects(calc.learner), calc.tutor)]
  /\ UNCHANGED <<teachers, assessments, cache, now, req, prev, edits, served, submit>>

\* ------------------------------------------ price_score on its own
\* the price part of _calculate_compatibility_scores for two tutors
ApplyPrice ==
  /\ calc.fn = "price"
  /\ ~calc.done
  /\ calc' = [calc EXCEPT !.done = TRUE, !.out = PriceScore(calc.price),
                          !.otherOut = PriceScore(calc.other)]
  /\ UNCHANGED <<teachers, assessments, cache, now, req, prev, edits, served, submit>>

\* ------------------------------- lookup tables of the scoring engine
\* float('inf') as the upper end of a row: above every count the model draws
Infinity == MaxCount + 1

Row(lo, hi, val) == [lo |-> lo, hi |-> hi, val |-> val]

\* a range of scores (min, max); the engine uses its midpoint
Range(min, max) == [min |-> min, max |-> max]

\* mutant of PERFORMANCE_BANDS: band 2 starts one score late
PerformanceBandsWithGap ==
  <<Row(0, 20, 1), Row(22, 40, 2), Row(41, 60, 3), Row(61, 80, 4), Row(81, 100, 5)>>

PERFORMANCE_BANDS ==
  <<Row(0, 20, 1), Row(21, 40, 2), Row(41, 60, 3), Row(61, 80, 4), Row(81, 100, 5)>>

PIAGET_THRESHOLDS ==
  <<Row(0, 30, "preoperational"), Row(31, 55, "concrete"),
    Row(56, 75, "transition_formal"), Row(76, 100, "formal")>>

CLASSIFICATION_CORRECTION_PENALTIES ==
  <<Row(0, 1, 0), Row(2, 3, 5), Row(4, 6, 10), Row(7, 10, 15), Row(11, Infinity, 20)>>

SERIATION_CORRECT_SCORES ==
  <<Row(0, 3, Range(85, 100)), Row(4, 7, Range(70, 84)), Row(8, 12, Range(55, 69)),
    Row(13, 20, Range(40, 54)), Row(21, Infinity, Range(30, 39))>>

SERIATION_INCORRECT_SCORES ==
  <<Row(0, 8, Range(25, 35)), Row(9, 15, Range(15, 24)), Row(16, Infinity, Range(0, 14))>>

\* the rows of a table that hold x
RowsHolding(table, x) == {i \in DOMAIN table : table[i].lo <= x /\ x <= table[i].hi}

\* the row a "for ... if lo <= x <= hi" loop stops at, 0 when it runs through
FirstRow(table, x) ==
  IF RowsHolding(table, x) = {} THEN 0
  ELSE CHOOSE i \in RowsHolding(table, x) : \A j \in RowsHolding(table, x) : i <= j

\* get_performance_band: the band, and whether "return 1" after the loop gave it
GetPerformanceBand(score) ==
  LET i == FirstRow(PERFORMANCE_BANDS, score)
  IN IF i = 0 THEN [band |-> 1, fallback |-> TRUE] ELSE [band |-> i, fallback |-> FALSE]

\* the piaget_stage loop of compute_scores, default 'preoperational'
PiagetStage(score) ==
  LET i == FirstRow(PIAGET_THRESHOLDS, score)
  IN IF i = 0 THEN "preoperational" ELSE PIAGET_THRESHOLDS[i].val

\* the penalty loop of calculate_classification_score, default 0
CorrectionPenalty(corrections) ==
  LET i == FirstRow(CLASSIFICATION_CORRECTION_PENALTIES, corrections)
  IN IF i = 0 THEN 0 ELSE CLASSIFICATION_CORRECTION_PENALTIES[i].val

\* one score and one count are looked up in the tables
ApplyLookup ==
  /\ calc.fn = "lookup"
  /\ ~calc.done
  /\ calc' = [calc EXCEPT !.done = TRUE,
                          !.band = GetPerformanceBand(calc.score),
                          !.stage = PiagetStage(calc.score),
                          !.penalty = CorrectionPenalty(calc.count)]
  /\ UNCHANGED <<teachers, assessments, cache, now, req, prev, edits, served, submit>>

\* --------------------------------------------- compute_scores on its own
\* Scores before clamping are counted in halves (155 is 77.5): every base
\* score is the midpoint (min + max) / 2 of a range.
Twice(range) == range.min + range.max

CONSERVATION_CORRECT_BASE == Range(70, 85)
CONFIDENCE_HIGH_THRESHOLD == 80
CONFIDENCE_LOW_THRESHOLD == 40
CONFIDENCE_CORRECT_HIGH_BONUS == Range(10, 15)
CONFIDENCE_CORRECT_LOW_BONUS == Range(0, 5)
CONFIDENCE_INCORRECT_HIGH_PENALTY == 10

\* CONSERVATION_INCORRECT_BASE.get(choice, (20, 30))
ConservationIncorrectBase(choice) ==
  CASE choice = "A" -> Range(25, 35)
    [] choice = "B" -> Range(30, 40)
    [] OTHER -> Range(20, 30)

\* CLASSIFICATION_BASE_SCORES.get(rule, (0, 25))
ClassificationBase(rule) ==
  CASE rule = "shape" -> Range(75, 85)
    [] rule = "mixed" -> Range(55, 70)
    [] rule = "color" -> Range(35, 50)
    [] OTHER -> Range(0, 25)

\* REVERSIBILITY_SCORES.get(answer, (10, 25))
ReversibilityBase(answer) ==
  CASE answer = "yes" -> Range(75, 85)
    [] answer = "not_sure" -> Range(45, 60)
    [] answer = "no" -> Range(20, 35)
    [] OTHER -> Range(10, 25)

\* HYPOTHETICAL_SCORES.get(choice, HYPOTHETICAL_SCORES['other'])
HypotheticalBase(choice) ==
  CASE choice = "D" -> Range(85, 95)
    [] choice = "B" -> Range(65, 78)
    [] choice = "A" -> Range(38, 52)
    [] choice = "C" -> Range(18, 32)
    [] OTHER -> Range(0, 15)

\* Python's round() of halves / 2: to the nearest integer, a tie to the even one
RoundHalves(halves) ==
  IF halves % 2 = 0 THEN halves \div 2
  ELSE LET below == (halves - 1) \div 2
       IN IF below % 2 = 0 THEN below ELSE below + 1

\* mutant of ClampScore: the score is rounded but not clamped
ClampScoreRoundOnly(halves) == RoundHalves(halves)

\* clamp_score, on a score given in halves
ClampScore(halves) == Max(0, Min(100, RoundHalves(halves)))

\* a confidence value of the payload, or None
NoConfidence == [none |-> TRUE, value |-> 0]
Confidence(v) == [none |-> FALSE, value |-> v]

\* calculate_conservation_score
ConservationScore(choice, confidence) ==
  IF choice = "C"
    THEN ClampScore(Twice(CONSERVATION_CORRECT_BASE)
           + (IF confidence.none THEN 0
              ELSE IF confidence.value >= CONFIDENCE_HIGH_THRESHOLD
                THEN Twice(CONFIDENCE_CORRECT_HIGH_BONUS)
              ELSE IF confidence.value < CONFIDENCE_LOW_THRESHOLD
                THEN Twice(CONFIDENCE_CORRECT_LOW_BONUS)
              ELSE 0))
  ELSE ClampScore(Twice(ConservationIncorrectBase(choice))
         - (IF ~confidence.none /\ confidence.value >= CONFIDENCE_HIGH_THRESHOLD
              THEN 2 * CONFIDENCE_INCORRECT_HIGH_PENALTY ELSE 0))

\* calculate_classification_score
ClassificationScore(rule, corrections) ==
  ClampScore(Twice(ClassificationBase(rule)) - 2 * CorrectionPenalty(corrections))

\* calculate_seriation_score, with clamp_score(20) when no row holds the count
SeriationScore(is_correct, swap_count) ==
  LET table == IF is_correct THEN SERIATION_CORRECT_SCORES ELSE SERIATION_INCORRECT_SCORES
      i == FirstRow(table, swap_count)
  IN IF i = 0 THEN ClampScore(2 * 20) ELSE ClampScore(Twice(table[i].val))

\* an explanation text, by how many positive and negative keywords it holds;
\* an absent or empty explanation is not analysed
NoExplanation == [given |-> FALSE, positive_count |-> 0, negative_count |-> 0]
Explanation(p, n) == [given |-> TRUE, positive_count |-> p, negative_count |-> n]

\* calculate_reversibility_score
ReversibilityScore(answer, explanation) ==
  ClampScore(Twice(ReversibilityBase(answer))
    + (IF ~explanation.given THEN 0
       ELSE IF explanation.positive_count > explanation.negative_count THEN 2 * 5
       ELSE IF explanation.negative_count > explanation.positive_count THEN -(2 * 5)
       ELSE 0))

\* calculate_hypothetical_thinking_score
HypotheticalThinkingScore(choice) == ClampScore(Twice(HypotheticalBase(choice)))

Domains ==
  {"conservation", "classification", "seriation", "reversibility", "hypothetical_thinking"}

\* PIAGET_WEIGHTS, in tenths
PIAGET_WEIGHTS == [d \in Domains |-> IF d = "hypothetical_thinking" THEN 12 ELSE 10]

SumOver(f, S) ==
  LET RECURSIVE Sum(_)
      Sum(T) == IF T = {} THEN 0
                ELSE LET d == CHOOSE x \in T : TRUE IN f[d] + Sum(T \ {d})
  IN Sum(S)

\* clamp_score(total_weighted_score / total_weight): the values the float
\* division can round to; on an exact tie the rounding error of the floats
\* decides between the two neighbours
PiagetConstructScores(scores_dict) ==
  LET total_weighted_score == SumOver([d \in Domains |-> scores_dict[d] * PIAGET_WEIGHTS[d]], Domains)
      total_weight == SumOver(PIAGET_WEIGHTS, Domains)
      below == total_weighted_score \div total_weight
      rest == total_weighted_score % total_weight
      rounded == IF 2 * rest < total_weight THEN {below}
                 ELSE IF 2 * rest > total_weight THEN {below + 1}
                 ELSE {below, below + 1}
  IN {Max(0, Min(100, x)) : x \in rounded}

\* compute_scores: the fields it sets on the assessment before saving it
ComputeScores ==
  /\ calc.fn = "compute"
  /\ ~calc.done
  /\ LET p == calc.payload
         scores_dict ==
           [d \in Domains |->
              CASE d = "conservation" -> ConservationScore(p.s2.choice, p.s2.confidence)
                [] d = "classification" -> ClassificationScore(p.s3.rule, p.s3.corrections)
                [] d = "seriation" -> SeriationScore(p.s4.is_correct, p.s4.swap_count)
                [] d = "reversibility" -> ReversibilityScore(p.s5.answer, p.s5.explanation)
                [] OTHER -> HypotheticalThinkingScore(p.s6.choice)]
         bands_dict == [d \in Domains |-> GetPerformanceBand(scores_dict[d]).band]
     IN \E overall \in PiagetConstructScores(scores_dict) :
          calc' = [calc EXCEPT !.done = TRUE, !.scores = scores_dict, !.bands = bands_dict,
                               !.piaget_construct_score = overall,
                               !.overall_band = GetPerformanceBand(overall).band,
                               !.piaget_stage = PiagetStage(overall)]
  /\ UNCHANGED <<teachers, assessments, cache, now, req, prev, edits, served, submit>>

\* ------------------------------------------------- RateLimitMiddleware
\* rate_limits['/api/learner/match-tutors/']
RateRequests == 5
RateWindow == 300

\* JWTAuthentication has authenticate and authenticate_header only: the call
\* auth.authenticate_credentials(token) raises AttributeError
HasAuthenticateCredentials == FALSE

\* get_user_identifier: the learner's id, or "" for None
GetUserIdentifier(credential, learner) ==
  IF credential = "session" THEN learner
  ELSE IF HasAuthenticateCredentials THEN learner
  ELSE ""

\* the timestamps of a sequence that pass the filter req_time > window_start
RECURSIVE Recent(_, _)
Recent(requests, window_start) ==
  IF requests = <<>> THEN <<>>
  ELSE IF Head(requests) > window_start
    THEN <<Head(requests)>> \o Recent(Tail(requests), window_start)
  ELSE Recent(Tail(requests), window_start)

MinOf(requests) ==
  CHOOSE x \in SeqSet(requests) : \A y \in SeqSet(requests) : x <= y

\* check_rate_limit at current_time, entry being what the cache holds under
\* the learner's key ([requests, expires]): the response (status 0 is None:
\* the request goes on to the view) and the entry afterwards
CheckRateLimit(user_id, entry, current_time) ==
  IF user_id = "" THEN [status |-> 0, retry_after |-> 0, entry |-> entry]
  ELSE LET stored == IF entry.expires > current_time THEN entry.requests ELSE <<>>
           requests == Recent(stored, current_time - RateWindow)
       IN IF Len(requests) >= RateRequests
            THEN [status |-> 429,
                  retry_after |-> Max(MinOf(requests) + RateWindow - current_time, 0),
                  entry |-> entry]
            ELSE [status |-> 0, retry_after |-> 0,
                  entry |-> [requests |-> Append(requests, current_time),
                             expires |-> current_time + RateWindow]]

InitRate ==
  /\ teachers = FixtureRoster
  /\ assessments = [l \in LearnerIds |-> IF l = "l1" THEN FixtureAssessment ELSE NoRow]
  /\ cache = {}
  /\ now = 0
  /\ req = [r \in Reqs |-> IdleReq]
  /\ prev = NoPrev
  /\ edits = 0
  /\ served = 0
  /\ submit = [s \in Subs |-> IdleSubmit]
  /\ calc = [fn |-> "rate", clock |-> 0, entry |-> [requests |-> <<>>, expires |-> 0], calls |-> 0,
             passed |-> [c \in {"session", "bearer"} |-> <<>>],
             last |-> [credential |-> "none", status |-> 0, retry_after |-> 0]]

\* __call__ for one request of learner l1 to /api/learner/match-tutors/
RateRequest(credential) ==
  /\ calc.fn = "rate"
  /\ calc.calls < MaxCalls
  /\ LET out == CheckRateLimit(GetUserIdentifier(credential, "l1"), calc.entry, calc.clock)
     IN calc' = [calc EXCEPT
                   !.calls = @ + 1,
                   !.entry = out.entry,
                   !.passed[credential] = IF out.status = 0 THEN Append(@, calc.clock) ELSE @,
                   !.last = [credential |-> credential, status |-> out.status,
                             retry_after |-> out.retry_after]]
  /\ UNCHANGED <<teachers, assessments, cache, now, req, prev, edits, served, submit>>

\* time.time() moves on
RateTick ==
  /\ calc.fn = "rate"
  /\ calc.clock + ClockStep <= MaxClock
  /\ calc' = [calc EXCEPT !.clock = @ + ClockStep]
  /\ UNCHANGED <<teachers, assessments, cache, now, req, prev, edits, served, submit>>

NextRate ==
  \/ RateRequest("session")
  \/ RateRequest("bearer")
  \/ RateTick

SpecRate == InitRate /\ [][NextRate]_vars

\* ------------------------------------ _calculate_cognitive_score on its own
\* One point per rule.  Stored scores are 10 times the numbers the rules
\* compare (4 is 40 here, 7 is 70).
\* a rule with a low, a high and a mid band
PointRule(x, trait, lowWants, highWants) ==
  IF x <= 40 /\ trait = lowWants THEN 1
  ELSE IF x >= 70 /\ trait = highWants THEN 1
  ELSE IF 40 < x /\ x < 70 /\ trait = "HIGH" THEN 1
  ELSE 0

ConfidencePoint(conf, anx, tcs) ==
  IF (conf <= 40 \/ anx >= 70) /\ tcs = "HIGH" THEN 1
  ELSE IF conf >= 70 /\ anx <= 40 /\ tcs = "LOW" THEN 1
  ELSE IF 40 < conf /\ conf < 70 /\ 40 < anx /\ anx < 70 /\ tcs = "HIGH" THEN 1
  ELSE 0

ExplorationPoint(exp, prec, tet) ==
  IF exp >= 70 /\ tet = "LOW" THEN 1
  ELSE IF exp <= 40 /\ tet = "HIGH" THEN 1
  ELSE IF 40 < exp /\ exp < 70
    THEN (IF prec <= 40 /\ tet = "HIGH" THEN 1
          ELSE IF prec > 40 /\ tet = "LOW" THEN 1
          ELSE 0)
  ELSE 0

\* reasoning = (logical + hypothetical) / 2, compared on the doubled number
ReasoningPoint(sum2, trd) ==
  IF sum2 >= 140 /\ trd = "HIGH" THEN 1
  ELSE IF sum2 <= 80 /\ trd = "LOW" THEN 1
  ELSE IF 80 < sum2 /\ sum2 < 140 /\ trd = "HIGH" THEN 1
  ELSE 0

\* _calculate_cognitive_score: points out of 8
CognitiveScore(cog, ped) ==
  ConfidencePoint(cog.confidence, cog.anxiety, ped.tcs)
    + PointRule(cog.processing_speed, ped.tspi, "HIGH", "LOW")
    + PointRule(cog.working_memory, ped.twmls, "HIGH", "LOW")
    + PointRule(cog.precision, ped.tpo, "HIGH", "LOW")
    + PointRule(cog.error_correction, ped.tecp, "HIGH", "LOW")
    + ExplorationPoint(cog.exploration, cog.precision, ped.tet)
    + PointRule(cog.impulsivity, ped.tics, "LOW", "HIGH")
    + ReasoningPoint(cog.logical_reasoning + cog.hypothetical_reasoning, ped.trd)

\* the assessments the rule-based score is tried on: the two fixtures and
\* rows that hold one score throughout
PointRows == Assessments \cup {RowOf(a, a) : a \in ScoreGrid}

\* the learner's profile (_prepare_learner_profile) and one tutor's pedagogy
\* profile go through _calculate_cognitive_score
ApplyCognitive ==
  /\ calc.fn = "points"
  /\ ~calc.done
  /\ calc' = [calc EXCEPT !.done = TRUE, !.out = CognitiveScore(calc.row, calc.pedagogy)]
  /\ UNCHANGED <<teachers, assessments, cache, now, req, prev, edits, served, submit>>

\* ------------------------------------- the score of one returned match
\* get_best_matches from the ranking on, for one qualified tutor, when the
\* collaborator fails: _fallback_matching, then _prepare_response
FinalByFallback ==
  /\ calc.fn = "final"
  /\ ~calc.done
  /\ LET tutors_data == {TutorData(id, calc.tutors[id], calc.assessment) :
                           id \in DOMAIN calc.tutors}
     IN \E result \in FallbackResults(tutors_data) :
          calc' = [calc EXCEPT !.done = TRUE, !.path = "fallback",
                               !.response = PrepareResponse(result, calc.tutors)]
  /\ UNCHANGED <<teachers, assessments, cache, now, req, prev, edits, served, submit>>

\* the same when the collaborator answers one entry for the tutor
FinalByAI ==
  /\ calc.fn = "final"
  /\ ~calc.done
  /\ LET entry == [Entry("t1") EXCEPT !.final_score = calc.ai_score]
         result == [NoResult EXCEPT !.matches = [kind |-> "list", items |-> <<entry>>]]
     IN calc' = [calc EXCEPT !.done = TRUE, !.path = "ai",
                             !.response = PrepareResponse(result, calc.tutors)]
  /\ UNCHANGED <<teachers, assessments, cache, now, req, prev, edits, served, submit>>

\* One call of one scoring function, on inputs drawn at the start: calc holds
\* the name of the function, its inputs and, once the call has ended, what it
\* returned.
InitCalc ==
  /\ teachers = FixtureRoster
  /\ assessments = [l \in LearnerIds |-> IF l = "l1" THEN FixtureAssessment ELSE NoRow]
  /\ cache = {}
  /\ now = 0
  /\ req = [r \in Reqs |-> IdleReq]
  /\ prev = NoPrev
  /\ edits = 0
  /\ served = 0
  /\ submit = [s \in Subs |-> IdleSubmit]
  \* _fallback_matching: the tutors_data lists of MaxPool candidates (one list
  \* per choice of kinds; which id has which kind makes no difference)
  /\ \/ \E D \in {{Candidate(t, FallbackKinds[f[t]]) : t \in PoolIds} :
                    f \in {g \in [PoolIds -> DOMAIN FallbackKinds] :
                             \A a, b \in PoolIds : IdRank[a] <= IdRank[b] => g[a] <= g[b]}} :
          calc = [fn |-> "fallback", in |-> D, done |-> FALSE,
                  jitter |-> [t \in PoolIds |-> 0], out |-> NoResult]
     \/ \E a, b \in ScoreGrid, ped \in Fingerprints :
          calc = [fn |-> "score", row |-> RowOf(a, b), pedagogy |-> ped,
                  done |-> FALSE, out |-> 0]
     \/ \E lc, tc \in
             {Column(k, <<>>) : k \in {"null", "empty", "nonjson", "number", "zero",
                                       "true", "jsonnull", "list"}}
               \cup {Column("string", <<Str("m"), Str("a"), Str("t"), Str("h"), Str("s")>>),
                     Column("object", <<Str("mathematics")>>),
                     Column("list", <<Str("Mathematics"), [isStr |-> FALSE, s |-> "5"]>>),
                     NameList(<<"m", "a">>),
                     NameList(<<"Mathematics", "Physics", "Chemistry">>),
                     NameList(<<"Mathematics", "Chemistry">>),
                     NameList(<<"Maths", "Physics">>),
                     NameList(<<" physics ", "MATHEMATICS", "Mathematics">>),
                     NameList(<<"Biology", "English", "History">>)} :
          calc = [fn |-> "subject", learner |-> lc, tutor |-> tc, done |-> FALSE,
                  out |-> [raises |-> FALSE, score |-> 0]]
     \/ \E p, q \in {-500, -2, 0, 2, 400, 500, 1000, 1998, 2000, 2002, 2500, 2000000} :
          calc = [fn |-> "price", price |-> p, other |-> q, done |-> FALSE,
                  out |-> 0, otherOut |-> 0]
     \/ \E sc \in (0..100), n \in (0..MaxCount) :
          calc = [fn |-> "lookup", score |-> sc, count |-> n, done |-> FALSE,
                  band |-> [band |-> 0, fallback |-> FALSE], stage |-> "", penalty |-> 0]
     \/ \E c2 \in {"A", "B", "C", "Z"},
           cf \in {NoConfidence} \cup {Confidence(v) : v \in {-5, 39, 40, 79, 80, 250}},
           ru \in {"shape", "mixed", "color", "random", "zigzag"},
           co \in {0, 3, 10, MaxCount},
           ok \in BOOLEAN, sw \in {3, 8, 16, MaxCount},
           an \in {"yes", "not_sure", "no", "maybe"},
           ex \in {NoExplanation, Explanation(1, 0), Explanation(1, 2)},
           c6 \in {"A", "B", "C", "D", "Z"} :
          calc = [fn |-> "compute",
                  payload |-> [s2 |-> [choice |-> c2, confidence |-> cf],
                               s3 |-> [rule |-> ru, corrections |-> co],
                               s4 |-> [is_correct |-> ok, swap_count |-> sw],
                               s5 |-> [answer |-> an, explanation |-> ex],
                               s6 |-> [choice |-> c6]],
                  done |-> FALSE, scores |-> [d \in Domains |-> 0], bands |-> [d \in Domains |-> 0],
                  piaget_construct_score |-> 0, overall_band |-> 0, piaget_stage |-> ""]
     \/ \E row \in PointRows, ped \in Fingerprints :
          calc = [fn |-> "points", row |-> row, pedagogy |-> ped, done |-> FALSE, out |-> 0]
     \/ \E row \in PointRows, ped \in Fingerprints,
           subj \in {PerfectTutor.subjects, LearnerSubjects},
           score \in {-500, 0, 8500, 10000, 15000} :
          calc = [fn |-> "final", assessment |-> row,
                  tutors |-> [id \in {"t1"} |->
                                [lesson_price |-> 800, subjects |-> subj, pedagogy |-> ped]],
                  ai_score |-> score, done |-> FALSE, path |-> "none",
                  response |-> NoResponse]

NextCalc ==
  \/ ApplyFallback
  \/ ApplyScore
  \/ ApplySubject
  \/ ApplyPrice
  \/ ApplyLookup
  \/ ComputeScores
  \/ ApplyCognitive
  \/ FinalByFallback
  \/ FinalByAI

SpecCalc == InitCalc /\ [][NextCalc]_vars

\* ------------------------------------------------------- OTP.verify_otp
\* One OTP row (verification_id, otp, use_for) and the workers that serve
\* OTPVerifyView.post for it.  verify_otp runs outside any transaction: the
\* query, the validity check and the save are three steps of a worker.
Verifiers == 1..MaxVerifiers

\* expires_at of the row: create_otp at clock 0 plus the expiry time
ExpiresAt == 2

InitOtp ==
  /\ teachers = FixtureRoster
  /\ assessments = [l \in LearnerIds |-> IF l = "l1" THEN FixtureAssessment ELSE NoRow]
  /\ cache = {}
  /\ now = 0
  /\ req = [r \in Reqs |-> IdleReq]
  /\ prev = NoPrev
  /\ edits = 0
  /\ served = 0
  /\ submit = [s \in Subs |-> IdleSubmit]
  /\ calc = [fn |-> "otp", is_used |-> FALSE, clock |-> 0, calls |-> 0,
             worker |-> [v \in Verifiers |-> [pc |-> "idle", saw_used |-> FALSE]],
             returned |-> <<>>]

\* cls.objects.get(..., is_used=False): the row as it is now, or DoesNotExist
\* and the call returns False
OtpGet(v) ==
  /\ calc.fn = "otp"
  /\ calc.worker[v].pc = "idle"
  /\ calc.calls < MaxVerifyCalls
  /\ calc' = IF calc.is_used
               THEN [calc EXCEPT !.calls = @ + 1,
                                 !.returned = Append(@, [value |-> FALSE, at |-> calc.clock])]
               ELSE [calc EXCEPT !.calls = @ + 1,
                                 !.worker[v] = [pc |-> "check", saw_used |-> calc.is_used]]
  /\ UNCHANGED <<teachers, assessments, cache, now, req, prev, edits, served, submit>>

\* otp_obj.is_valid() on the object that was fetched
OtpCheck(v) ==
  /\ calc.fn = "otp"
  /\ calc.worker[v].pc = "check"
  /\ calc' = IF ~calc.worker[v].saw_used /\ calc.clock < ExpiresAt
               THEN [calc EXCEPT !.worker[v].pc = "save"]
               ELSE [calc EXCEPT !.worker[v] = [pc |-> "idle", saw_used |-> FALSE],
                                 !.returned = Append(@, [value |-> FALSE, at |-> calc.clock])]
  /\ UNCHANGED <<teachers, assessments, cache, now, req, prev, edits, served, submit>>

\* otp_obj.is_used = True; otp_obj.save(); return True
OtpSave(v) ==
  /\ calc.fn = "otp"
  /\ calc.worker[v].pc = "save"
  /\ calc' = [calc EXCEPT !.is_used = TRUE, !.worker[v] = [pc |-> "idle", saw_used |-> FALSE],
                          !.returned = Append(@, [value |-> TRUE, at |-> calc.clock])]
  /\ UNCHANGED <<teachers, assessments, cache, now, req, prev, edits, served, submit>>

\* timezone.now() moves on
OtpTick ==
  /\ calc.fn = "otp"
  /\ calc.clock < MaxOtpClock
  /\ calc' = [calc EXCEPT !.clock = @ + 1]
  /\ UNCHANGED <<teachers, assessments, cache, now, req, prev, edits, served, submit>>

NextOtp ==
  \/ \E v \in Verifiers : OtpGet(v)
  \/ \E v \in Verifiers : OtpCheck(v)
  \/ \E v \in Verifiers : OtpSave(v)
  \/ OtpTick

SpecOtp == InitOtp /\ [][NextOtp]_vars

\* ------------------------------------- payment webhooks and status polls
\* One teacher with two payments, both PENDING after StartPaymentView.post.
\* A UserSubscription row is named by its payment (OneToOneField).  Handlers
\* are the workers that serve PaymentWebhookView.post and
\* PaymentStatusView.get; statements outside transaction.atomic() commit one
\* by one, a transaction shows its writes to the others when it commits
\* (READ COMMITTED).
Orders == {"o1", "o2"}
Handlers == 1..MaxHandlers

\* the branch a handler takes after it has read the payment row (seen is the
\* status it read): the pc of its first write, or "idle" when it only answers
Branch(request, seen) ==
  IF request.kind = "webhook"
    THEN (IF request.event = "ORDER_CHARGED" /\ request.status = "CHARGED"
            THEN (IF seen = "PENDING" THEN "activate" ELSE "idle")
          ELSE IF request.event \in {"AUTO_REFUND", "ORDER_REFUNDED"}
            THEN (IF seen = "CHARGED" THEN "refund" ELSE "idle")
          ELSE IF request.status \in {"AUTHORIZATION_FAILED", "AUTHENTICATION_FAILED"} THEN "fail"
          ELSE "idle")
  ELSE (IF seen = "CHARGED" THEN "idle"
        ELSE IF request.status = "CHARGED" /\ seen = "PENDING" THEN "activate"
        ELSE IF request.status \in {"AUTHORIZATION_FAILED", "AUTHENTICATION_FAILED"} THEN "fail"
        ELSE "idle")

InitPay ==
  /\ teachers = FixtureRoster
  /\ assessments = [l \in LearnerIds |-> IF l = "l1" THEN FixtureAssessment ELSE NoRow]
  /\ cache = {}
  /\ now = 0
  /\ req = [r \in Reqs |-> IdleReq]
  /\ prev = NoPrev
  /\ edits = 0
  /\ served = 0
  /\ submit = [s \in Subs |-> IdleSubmit]
  /\ calc = [fn |-> "pay", payment |-> [o \in Orders |-> "PENDING"],
             sub |-> [o \in Orders |-> "none"], calls |-> 0,
             handler |-> [h \in Handlers |-> [pc |-> "idle", order |-> "none", expire |-> {}]]]

\* another handler's open transaction has written payment row o: a write to
\* the row waits for its commit
RowLocked(h, o) ==
  \E g \in Handlers \ {h} : calc.handler[g].pc = "create" /\ calc.handler[g].order = o

\* a webhook or a poll arrives: Payment.objects.get and the branch
PayReceive(h) ==
  \E o \in Orders,
     request \in {[kind |-> "webhook", event |-> "ORDER_CHARGED", status |-> "CHARGED"],
                  [kind |-> "webhook", event |-> "ORDER_REFUNDED", status |-> "REFUNDED"],
                  [kind |-> "webhook", event |-> "ORDER_FAILED",
                   status |-> "AUTHENTICATION_FAILED"],
                  [kind |-> "poll", event |-> "", status |-> "CHARGED"],
                  [kind |-> "poll", event |-> "", status |-> "AUTHENTICATION_FAILED"],
                  [kind |-> "poll", event |-> "", status |-> "NEW"]} :
    /\ calc.fn = "pay"
    /\ calc.handler[h].pc = "idle"
    /\ calc.calls < MaxPayCalls
    /\ calc' = [calc EXCEPT !.calls = @ + 1,
                            !.handler[h] = [pc |-> Branch(request, calc.payment[o]),
                                            order |-> o, expire |-> {}]]
    /\ UNCHANGED <<teachers, assessments, cache, now, req, prev, edits, served, submit>>

\* inside transaction.atomic(): mark_as_charged, then the UPDATE that expires
\* the teacher's ACTIVE subscriptions it can see
PayExpire(h) ==
  /\ calc.fn = "pay"
  /\ calc.handler[h].pc = "activate"
  /\ ~RowLocked(h, calc.handler[h].order)
  /\ calc' = [calc EXCEPT !.handler[h].pc = "create",
                          !.handler[h].expire = {o \in Orders : calc.sub[o] = "ACTIVE"}]
  /\ UNCHANGED <<teachers, assessments, cache, now, req, prev, edits, served, submit>>

\* UserSubscription.objects.create and the commit; a second row for the same
\* payment raises IntegrityError and the transaction is rolled back
PayCommit(h) ==
  /\ calc.fn = "pay"
  /\ calc.handler[h].pc = "create"
  /\ LET o == calc.handler[h].order
     IN calc' = IF calc.sub[o] # "none"
                  THEN [calc EXCEPT !.handler[h] = [pc |-> "idle", order |-> "none", expire |-> {}]]
                  ELSE [calc EXCEPT
                          !.handler[h] = [pc |-> "idle", order |-> "none", expire |-> {}],
                          !.payment[o] = "CHARGED",
                          !.sub = [p \in Orders |->
                                     IF p = o THEN "ACTIVE"
                                     ELSE IF p \in calc.handler[h].expire /\ calc.sub[p] = "ACTIVE"
                                       THEN "EXPIRED"
                                     ELSE calc.sub[p]]]
  /\ UNCHANGED <<teachers, assessments, cache, now, req, prev, edits, served, submit>>

\* payment.status = STATUS_AUTHENTICATION_FAILED; payment.save()
PayFail(h) ==
  /\ calc.fn = "pay"
  /\ calc.handler[h].pc = "fail"
  /\ ~RowLocked(h, calc.handler[h].order)
  /\ calc' = [calc EXCEPT !.handler[h] = [pc |-> "idle", order |-> "none", expire |-> {}],
                          !.payment[calc.handler[h].order] = "AUTHENTICATION_FAILED"]
  /\ UNCHANGED <<teachers, assessments, cache, now, req, prev, edits, served, submit>>

\* payment.status = STATUS_REFUNDED; payment.save()
PayRefund(h) ==
  /\ calc.fn = "pay"
  /\ calc.handler[h].pc = "refund"
  /\ ~RowLocked(h, calc.handler[h].order)
  /\ calc' = [calc EXCEPT !.handler[h].pc = "cancel",
                          !.payment[calc.handler[h].order] = "REFUNDED"]
  /\ UNCHANGED <<teachers, assessments, cache, now, req, prev, edits, served, submit>>

\* the refund's UPDATE: the payment's ACTIVE subscription becomes CANCELLED
PayCancel(h) ==
  /\ calc.fn = "pay"
  /\ calc.handler[h].pc = "cancel"
  /\ LET o == calc.handler[h].order
     IN calc' = [calc EXCEPT !.handler[h] = [pc |-> "idle", order |-> "none", expire |-> {}],
                             !.sub[o] = IF @ = "ACTIVE" THEN "CANCELLED" ELSE @]
  /\ UNCHANGED <<teachers, assessments, cache, now, req, prev, edits, served, submit>>

NextPay ==
  \/ \E h \in Handlers : PayReceive(h)
  \/ \E h \in Handlers : PayExpire(h)
  \/ \E h \in Handlers : PayCommit(h)
  \/ \E h \in Handlers : PayFail(h)
  \/ \E h \in Handlers : PayRefund(h)
  \/ \E h \in Handlers : PayCancel(h)

SpecPay == InitPay /\ [][NextPay]_vars

\* two workers serve requests side by side, one per slot, over fixed tables
NextRace ==
  \/ \E r \in Reqs : StartMatch(r)
  \/ \E r \in Reqs : RankByAI(r)
  \/ \E r \in Reqs : RankByFallback(r)
  \/ Tick

SpecRace == Init /\ [][NextRace]_vars

\* ================================================================ claims
\* the schema {matches: [{tutor_id, final_score, reasoning, subject_explanation}]}
WellShaped(o) ==
  /\ o.kind = "json"
  /\ o.json.type = "object"
  /\ o.json.matches.kind = "list"
  /\ \A i \in DOMAIN o.json.matches.items : ~EntryRaises(o.json.matches.items[i])

Answered(q) == q.pc = "done" /\ q.outcome # NoOutcome

\* C1: after validation and a cache miss, every collaborator outcome that is
\* not a well-shaped answer (no client, raise or timeout, non-JSON, JSON of
\* another shape) makes the request answer from the FALLBACK ranking.
C1_MalformedUsesFallback ==
  \A r \in Reqs :
    (Answered(req[r]) /\ ~WellShaped(req[r].outcome))
      => (req[r].path = "fallback" /\ req[r].response.status = "ok")

\* C2: for a learner with an assessment and a non-empty pool, get_best_matches
\* returns success = true and raises nothing, whatever the collaborator does.
C2_AlwaysSucceeds ==
  \A r \in Reqs :
    (req[r].pc = "done" /\ req[r].path # "invalid")
      => (req[r].response.status = "ok" /\ req[r].response.success)

StoredUnderKey(q) == \E e \in cache : e.key = q.key /\ e.value = q.result

\* C3: every request that missed the cache has stored its ranked result under
\* its key when it ends, collaborator-ranked or FALLBACK.
C3_EveryMissStores ==
  \A r \in Reqs :
    (req[r].pc = "done" /\ req[r].path \in {"ai", "fallback"}) => StoredUnderKey(req[r])

\* What the code does instead: a request ranked by the collaborator has stored
\* that result under its key (one cache write) when it ends; a request ranked
\* by FALLBACK has written nothing and the cache does not hold its result.
OnlyAIResultStored ==
  \A r \in Reqs :
    req[r].pc = "done" =>
      /\ req[r].path = "ai" =>
           (req[r].cacheWrites = 1 /\ \E e \in cache : e.key = req[r].key)
      /\ req[r].path = "fallback" =>
           /\ req[r].cacheWrites = 0
           /\ \A e \in cache : e.key = req[r].key => e.value # req[r].result

\* the call in slot q passed validation and has the inputs and hour bucket of
\* the call its slot served before it
RepeatsPrev(q) ==
  /\ q.pc \in {"rank", "done"}
  /\ q.path # "invalid"
  /\ prev.valid
  /\ prev.learner = q.learner
  /\ prev.tutors = TutorsHash(q.tutors)
  /\ prev.cognitive = CognitiveHash(q.assessment)
  /\ prev.hour = HourComponent(q.at)

\* C4: the second of two consecutive calls with the same learner,
\* qualified-tutor ids, cognitive scores and hour bucket is served from the
\* cache, whatever the first call's ranking step did.
C4_SecondCallHits ==
  \A r \in Reqs : RepeatsPrev(req[r]) => req[r].path = "hit"

\* What the code does instead: that second call is served from the cache
\* exactly when the first call was ranked by the collaborator or was itself
\* served from the cache; after a first call that ended in FALLBACK it misses.
SecondCallHitsUnlessFallback ==
  \A r \in Reqs :
    RepeatsPrev(req[r]) => (req[r].path = "hit" <=> prev.path \in {"ai", "hit"})

\* C5: a cached ranking is never served after an input of the ranking changed:
\* a request served from the cache gets a result that was ranked from the tutor
\* rows and the assessment it loaded itself.
C5_NoStaleHit ==
  \A r \in Reqs :
    req[r].path = "hit" =>
      req[r].from = [tutors |-> req[r].tutors, assessment |-> req[r].assessment]

\* C6: every response and every cached value holds at most 3 matches.
C6_AtMostThree ==
  /\ \A r \in Reqs : Len(req[r].response.matches) <= TopN
  /\ \A e \in cache : Len(MatchItems(e.value)) <= TopN

\* C7: a call for a learner without an assessment, or with an empty qualified
\* pool, ends with the ValueError (HTTP 400) before any scoring, cache access or
\* collaborator call; the missing assessment is reported first.
C7_PreconditionFirst ==
  [][\A r \in Reqs :
       (served' = served + 1 /\ req'[r] # req[r]) =>
         LET q == req'[r]
             noAssessment == assessments[q.learner] = NoRow
             noTutors == Qualified(teachers) = {}
         IN /\ noAssessment => q.response = ValueError("Cognitive assessment required")
            /\ (~noAssessment /\ noTutors)
                 => q.response = ValueError("No qualified tutors available")
            /\ (noAssessment \/ noTutors) =>
                 /\ q.pc = "done"
                 /\ HttpStatus(q.response) = 400
                 /\ ~q.scored /\ q.cacheReads = 0 /\ q.cacheWrites = 0 /\ q.aiCalls = 0
                 /\ cache' = cache]_vars

C7_Witness ==
  \E r \in Reqs :
    /\ req[r].pc = "done"
    /\ req[r].response = ValueError("Cognitive assessment required")
    /\ assessments[req[r].learner] = NoRow
    /\ Qualified(teachers) = {}

\* C8: the candidate pool holds only tutors with all 8 traits set, and every
\* tutor of a response is one of the pool loaded for that request.
C8_OnlyQualifiedReturned ==
  \A r \in Reqs :
    /\ \A id \in DOMAIN req[r].tutors :
         \A tr \in Traits : req[r].tutors[id].pedagogy[tr] \in {"HIGH", "LOW"}
    /\ \A i \in DOMAIN req[r].response.matches :
         req[r].response.matches[i].tutor.id \in DOMAIN req[r].tutors

\* the ranked list names a tutor outside the pool, and others are returned
NamesOutsider(q) ==
  /\ \E i \in DOMAIN MatchItems(q.result) :
       MatchItems(q.result)[i].tutor_id \notin DOMAIN q.tutors
  /\ q.response.status = "ok"
  /\ Len(q.response.matches) > 0

C8_Witness ==
  /\ \E t \in TutorIds : teachers[t] # NoRow /\ t \notin Qualified(teachers)
  /\ \E r \in Reqs : req[r].path = "hit" /\ NamesOutsider(req[r])

\* C9: a request calls the collaborator not at all when the cache hits and at
\* most once when it misses.
C9_AtMostOneCall ==
  \A r \in Reqs :
    /\ req[r].aiCalls <= 1
    /\ req[r].path \in {"hit", "invalid"} => req[r].aiCalls = 0

C9_Witness ==
  \E r \in Reqs :
    /\ req[r].pc = "done" /\ req[r].path = "fallback"
    /\ req[r].outcome.kind = "raises"
    /\ req[r].aiCalls = 1

\* C10: a result served from the cache carries cache_hit = true, a result that
\* was just ranked carries cache_hit = false.
C10_CacheHitFlag ==
  \A r \in Reqs :
    /\ req[r].path = "hit" => req[r].result.cache_hit
    /\ req[r].path \in {"ai", "fallback"} => ~req[r].result.cache_hit

\* the orders in which the queryset (no order_by) can list the tutors of S
Listings(S) ==
  {f \in [1..Cardinality(S) -> S] : \A i, j \in 1..Cardinality(S) : i # j => f[i] # f[j]}

\* the call in slot q computed a key and another call returned before it
Keyed(q) == q.pc \in {"rank", "done"} /\ q.path # "invalid" /\ prev.valid

\* q and the call before it agree on learner id, qualified tutor ids,
\* cognitive scores and hour bucket
SameKeyInputs(q) ==
  /\ q.learner = prev.learner
  /\ DOMAIN q.tutors = prev.ids
  /\ q.assessment = prev.scores
  /\ HourComponent(q.at) = prev.hour

C12_RaceBothMiss ==
  [][\A r \in Reqs :
       (req[r].pc = "rank" /\ req'[r].pc = "done") =>
         LET q == req'[r]
         IN /\ q.aiCalls = (IF AICalled(q.outcome) THEN 1 ELSE 0)
            /\ (q.path = "fallback" \/ WellShaped(q.outcome))
                 => (q.response.status = "ok" /\ q.response.success)
            /\ q.path = "ai" =>
                 /\ Cardinality({e \in cache' : e.key = q.key}) = 1
                 /\ \A e \in cache' : e.key = q.key => e.value = q.result
            /\ q.path = "fallback" => cache' = cache
            /\ \A o \in Reqs \ {r} : req'[o] = req[o]]_vars

\* both requests missed on the same key, each called the collaborator once
\* and answered success; the key holds one of the two different results
C12_Witness ==
  /\ \A r \in Reqs :
       /\ req[r].pc = "done" /\ req[r].path = "ai"
       /\ req[r].aiCalls = 1 /\ req[r].cacheReads = 1
       /\ req[r].response.status = "ok" /\ req[r].response.success
  /\ req["r1"].key = req["r2"].key
  /\ req["r1"].result # req["r2"].result
  /\ Cardinality({e \in cache : e.key = req["r1"].key}) = 1
  /\ \E e \in cache, r \in Reqs : e.key = req[r].key /\ e.value = req[r].result

\* the ranked entries of q whose tutor is in the pool q loaded, in ranked order
KeptEntries(q) == SelectSeq(MatchItems(q.result), LAMBDA m : m.tutor_id \in DOMAIN q.tutors)

\* C13: a ranked entry whose tutor_id is not in the pool loaded for the request
\* is left out; the other entries are returned in their ranked order with
\* success = true, so the list may be shorter than the ranking.
C13_UnknownIdDropped ==
  \A r \in Reqs :
    LET q == req[r]
        items == MatchItems(q.result)
    IN (q.pc = "done" /\ q.path # "invalid"
          /\ \A i \in DOMAIN items : ~EntryRaises(items[i])) =>
         /\ q.response.status = "ok" /\ q.response.success
         /\ Len(q.response.matches) = Len(KeptEntries(q))
         /\ \A i \in DOMAIN q.response.matches :
              /\ q.response.matches[i].tutor.id = KeptEntries(q)[i].tutor_id
              /\ q.response.matches[i].compatibility_score = KeptEntries(q)[i].final_score

\* the ranking names an unqualified tutor first and an unknown id third; the
\* response holds the second and fourth entry, fewer than 3
C13_Witness ==
  \E r \in Reqs :
    LET q == req[r]
        items == MatchItems(q.result)
    IN /\ q.pc = "done" /\ q.response.status = "ok"
       /\ Len(items) = 4
       /\ items[1].tutor_id \notin DOMAIN q.tutors
       /\ items[3].tutor_id = GhostId
       /\ Len(q.response.matches) = 2
       /\ q.response.matches[1].tutor.id = items[2].tutor_id
       /\ q.response.matches[2].tutor.id = items[4].tutor_id

\* the fallback call under test has returned
FallbackDone == calc.fn = "fallback" /\ calc.done

\* the tutors_data entry of the candidate with this id
CandidateOf(id) == CHOOSE d \in calc.in : d.id = id

\* the candidates in the order the fallback returned them
Returned == [i \in DOMAIN MatchItems(calc.out) |-> CandidateOf(MatchItems(calc.out)[i].tutor_id)]

\* the candidates the fallback left out
LeftOut == {d \in calc.in : \A i \in DOMAIN Returned : Returned[i] # d}

\* a may stand before b by cognitive_score and subject_score
ScoreOrdered(a, b) ==
  \/ a.cognitive_score > b.cognitive_score
  \/ a.cognitive_score = b.cognitive_score /\ a.subject_score >= b.subject_score

\* C14: for every draw of the random factors the fallback ranks a candidate of
\* higher cognitive_score before every candidate of lower cognitive_score, and
\* at equal cognitive_score the higher subject_score first; the 3 it returns
\* are ahead of all it leaves out.
C14_FallbackScoreOrder ==
  FallbackDone =>
    /\ Len(Returned) = Min(TopN, Cardinality(calc.in))
    /\ \A i, j \in DOMAIN Returned : i < j => ScoreOrdered(Returned[i], Returned[j])
    /\ \A i \in DOMAIN Returned : \A d \in LeftOut : ScoreOrdered(Returned[i], d)

\* candidates scoring 8, 4 and 0 at one subject score and price come back in
\* that order although the random factor favours the lower ones
C14_Witness ==
  /\ FallbackDone
  /\ Len(Returned) = 3
  /\ Returned[1].cognitive_score = 80
  /\ Returned[2].cognitive_score = 40
  /\ Returned[3].cognitive_score = 0
  /\ \A i \in 1..3 : Returned[i].subject_score = 500 /\ Returned[i].price = 400
  /\ calc.jitter[Returned[1].id] < calc.jitter[Returned[2].id]
  /\ calc.jitter[Returned[2].id] <= calc.jitter[Returned[3].id]

\* a and b have the same cognitive_score and subject_score
ScoreTied(a, b) ==
  a.cognitive_score = b.cognitive_score /\ a.subject_score = b.subject_score

\* the pairs <<a, b>> the fallback call ranked a before b: two returned
\* entries in their order, or a returned entry and one that was left out
RankedPairs ==
  {<<Returned[p[1]], Returned[p[2]]>> :
     p \in {q \in (DOMAIN Returned) \X (DOMAIN Returned) : q[1] < q[2]}}
    \cup {<<Returned[i], d>> : i \in DOMAIN Returned, d \in LeftOut}

\* C15: among candidates with equal cognitive_score and subject_score the
\* cheaper one is ranked first; the random jitter decides only between
\* candidates that are also equal in price.
C15_CheaperFirst ==
  FallbackDone =>
    \A p \in RankedPairs : ScoreTied(p[1], p[2]) => p[1].price <= p[2].price

\* C15 as the code has it: among candidates with equal cognitive_score and
\* subject_score the one with the larger random factor is ranked first,
\* whatever the prices; the cheaper one comes first only between candidates
\* that drew the same random factor.
C15_JitterBeforePrice ==
  FallbackDone =>
    \A p \in RankedPairs :
      ScoreTied(p[1], p[2]) =>
        \/ calc.jitter[p[1].id] > calc.jitter[p[2].id]
        \/ /\ calc.jitter[p[1].id] = calc.jitter[p[2].id]
           /\ p[1].price <= p[2].price

\* the dearer of two candidates with the same scores is ranked first, having
\* drawn the larger random factor
C15_Witness ==
  /\ FallbackDone
  /\ \E p \in RankedPairs :
       /\ ScoreTied(p[1], p[2])
       /\ p[1].price > p[2].price
       /\ calc.jitter[p[1].id] > calc.jitter[p[2].id]

ScoreDone == calc.fn = "score" /\ calc.done

\* the credits of the eight rules for the row and fingerprint under test,
\* in tenths
Credits ==
  LET cog == calc.row
      ped == calc.pedagogy
  IN <<ConfidenceRule(cog.confidence, cog.anxiety, ped.tcs),
       BandRule(cog.processing_speed, ped.tspi, "HIGH", "LOW"),
       BandRule(cog.working_memory, ped.twmls, "HIGH", "LOW"),
       BandRule(cog.precision, ped.tpo, "HIGH", "LOW"),
       BandRule(cog.error_correction, ped.tecp, "HIGH", "LOW"),
       ExplorationRule(cog.exploration, cog.precision, ped.tet),
       BandRule(cog.impulsivity, ped.tics, "LOW", "HIGH"),
       ReasoningRule(cog.logical_reasoning + cog.hypothetical_reasoning, ped.trd)>>

RECURSIVE SumSeq(_)
SumSeq(s) == IF s = <<>> THEN 0 ELSE Head(s) + SumSeq(Tail(s))

\* C17: for parameters in [0,10] and a complete fingerprint the
\* cognitive_score is the sum of the eight rule credits (at most 10.0), lies
\* in [0,10], and no rule gives more than 1.2.
C17_CognitiveScoreRange ==
  ScoreDone =>
    /\ calc.out = Min(SumSeq(Credits), 100)
    /\ 0 <= calc.out /\ calc.out <= 100
    /\ \A i \in DOMAIN Credits : 0 <= Credits[i] /\ Credits[i] <= 12

\* every rule gives its full 1.2: the score is 9.6
C17_Witness ==
  /\ ScoreDone
  /\ \A i \in DOMAIN Credits : Credits[i] = 12
  /\ calc.out = 96

\* C18: with scores stored on the 0-10 scale of the data model, the
\* processing-speed rule reads a stored score of at most 4 as low, between 4
\* and 7 as mid and at least 7 as high: its credit is that of the rule applied
\* to the stored score itself (a stored 8 earns the full credit with tspi = LOW
\* and nothing with tspi = HIGH).
C18_StoredScaleBands ==
  (ScoreDone /\ calc.row.processing_speed <= 10) =>
    Credits[2] = BandRule(10 * calc.row.processing_speed, calc.pedagogy.tspi, "HIGH", "LOW")

\* the subject score call under test has ended
SubjectDone == calc.fn = "subject" /\ calc.done

\* the column holds a JSON list of strings with at least one entry
WellFormedList(col) ==
  col.kind = "list" /\ col.items # <<>> /\ \A i \in DOMAIN col.items : col.items[i].isStr

\* C19: subject_score returns 0 and raises nothing when either subjects
\* column is absent or malformed: null or empty, not JSON, or JSON that is not
\* a list of strings.
C19_MalformedSubjectsGiveZero ==
  (SubjectDone /\ (~WellFormedList(calc.learner) \/ ~WellFormedList(calc.tutor))) =>
    (~calc.out.raises /\ calc.out.score = 0)

\* the lower-cased, trimmed names of a well-formed column
NameSet(col) == {Lower(col.items[i].s) : i \in DOMAIN col.items}

\* C20: for well-formed subject lists subject_score is 10 * |L \cap T| / |L|
\* over the sets of lower-cased, trimmed names, lies in [0,10], and a name
\* never matches another spelling (Maths, Physics against Mathematics,
\* Chemistry gives 0).
C20_SubjectOverlap ==
  (SubjectDone /\ WellFormedList(calc.learner) /\ WellFormedList(calc.tutor)) =>
    LET L == NameSet(calc.learner)
        T == NameSet(calc.tutor)
    IN /\ ~calc.out.raises
       /\ calc.out.score = (1000 * Cardinality(L \cap T)) \div Cardinality(L)
       /\ 0 <= calc.out.score /\ calc.out.score <= 1000
       /\ (calc.learner = NameList(<<"Maths", "Physics">>)
             /\ calc.tutor = NameList(<<"Mathematics", "Chemistry">>)) => calc.out.score = 0

\* a learner list that names mathematics twice in different case and physics
\* with blanks, against Mathematics and Chemistry: 1 of 2 names, 5.0
C20_Witness ==
  /\ SubjectDone
  /\ calc.learner = NameList(<<" physics ", "MATHEMATICS", "Mathematics">>)
  /\ calc.tutor = NameList(<<"Mathematics", "Chemistry">>)
  /\ calc.out = [raises |-> FALSE, score |-> 500]

\* the price score of two stored prices has been computed
PriceDone == calc.fn = "price" /\ calc.done

\* C21: price_score is max(0, 10 - 10 * price / 2000): for every lesson price
\* that can be stored it lies in [0,10], never increases with the price, is 10
\* at price 0 and 0 from price 2000 on.
C21_PriceScoreRange ==
  PriceDone =>
    /\ 0 <= calc.out /\ calc.out <= 1000
    /\ calc.price <= calc.other => calc.out >= calc.otherOut
    /\ calc.price = 0 => calc.out = 1000
    /\ calc.price >= max_price => calc.out = 0

\* a score and a count have been looked up
LookupDone == calc.fn = "lookup" /\ calc.done

\* each row starts right after the row before it
Contiguous(table) == \A i \in DOMAIN table : i > 1 => table[i].lo = table[i - 1].hi + 1

\* C22: every lookup table is contiguous and non-overlapping over its integer
\* domain: each score 0..100 is in exactly one performance band and one Piaget
\* range, each non-negative count in exactly one penalty row and one seriation
\* row, and get_performance_band never uses its fallback for a clamped score.
C22_TablesPartition ==
  LookupDone =>
    /\ Cardinality(RowsHolding(PERFORMANCE_BANDS, calc.score)) = 1
    /\ Cardinality(RowsHolding(PIAGET_THRESHOLDS, calc.score)) = 1
    /\ Cardinality(RowsHolding(CLASSIFICATION_CORRECTION_PENALTIES, calc.count)) = 1
    /\ Cardinality(RowsHolding(SERIATION_CORRECT_SCORES, calc.count)) = 1
    /\ Cardinality(RowsHolding(SERIATION_INCORRECT_SCORES, calc.count)) = 1
    /\ Contiguous(PERFORMANCE_BANDS) /\ Contiguous(PIAGET_THRESHOLDS)
    /\ Contiguous(CLASSIFICATION_CORRECTION_PENALTIES)
    /\ Contiguous(SERIATION_CORRECT_SCORES) /\ Contiguous(SERIATION_INCORRECT_SCORES)
    /\ Len(PERFORMANCE_BANDS) = 5
    /\ ~calc.band.fallback
    /\ calc.band.band \in RowsHolding(PERFORMANCE_BANDS, calc.score)

\* score 21, the first score of band 2, and 11 corrections, the first count of
\* the open-ended penalty row
C22_Witness ==
  /\ LookupDone
  /\ calc.score = 21
  /\ calc.count = 11
  /\ calc.band = [band |-> 2, fallback |-> FALSE]
  /\ calc.penalty = 20

\* compute_scores has set the computed fields
ComputeDone == calc.fn = "compute" /\ calc.done

\* C23: for every assessment payload each of the five domain scores and the
\* overall weighted score that compute_scores stores is an integer in [0,100],
\* and each stored band is in 1..5.
C23_StoredScoresInDomain ==
  ComputeDone =>
    /\ \A d \in Domains : calc.scores[d] \in 0..100 /\ calc.bands[d] \in 1..5
    /\ calc.piaget_construct_score \in 0..100
    /\ calc.overall_band \in 1..5

\* no pattern with many corrections: 12.5 - 20 is clamped to 0, band 1; and a
\* confident correct conservation answer reaches 90, band 5
C23_Witness ==
  /\ ComputeDone
  /\ calc.payload.s3 = [rule |-> "random", corrections |-> MaxCount]
  /\ calc.payload.s2 = [choice |-> "C", confidence |-> Confidence(250)]
  /\ calc.scores["classification"] = 0 /\ calc.bands["classification"] = 1
  /\ calc.scores["conservation"] = 90 /\ calc.bands["conservation"] = 5

\* the clock time at which a cache entry was stored
StoredAt(e) == e.expires - CACHE_TTL

\* C24: a cached ranking is never returned to a request made more than 3600
\* seconds after it was stored, nor to a request in another clock-hour bucket
\* than the request that stored it.
C24_HitWithinHour ==
  \A r \in Reqs :
    req[r].path = "hit" =>
      \E e \in cache :
        /\ e.key = req[r].key
        /\ e.value = req[r].result
        /\ StoredAt(e) <= req[r].at
        /\ req[r].at - StoredAt(e) <= 3600
        /\ req[r].at \div 3600 = StoredAt(e) \div 3600

\* a ranking stored half an hour ago is still in the cache, unexpired, but the
\* clock hour has changed: the same learner with the same tutors and scores
\* is not served from it
C24_Witness ==
  \E r \in Reqs :
    /\ req[r].pc = "done"
    /\ req[r].path \in {"ai", "fallback"}
    /\ \E e \in cache :
         /\ e.expires > req[r].at
         /\ StoredAt(e) < req[r].at
         /\ e.key.learner = req[r].key.learner
         /\ e.key.tutors = req[r].key.tutors
         /\ e.key.cognitive = req[r].key.cognitive
         /\ e.key.hour # req[r].key.hour

\* how many of the timestamps lie in the 300 seconds that end at t
InWindow(stamps, t) ==
  Cardinality({i \in DOMAIN stamps : stamps[i] > t - 300 /\ stamps[i] <= t})

\* C25: at most 5 requests of one learner, identified by its Bearer JWT, are
\* passed on to the matching view within any 300-second window; every further
\* request in the window gets HTTP 429 with a retry_after of at least 0.
C25_BearerRateLimited ==
  calc.fn = "rate" =>
    /\ \A i \in DOMAIN calc.passed["bearer"] :
         InWindow(calc.passed["bearer"], calc.passed["bearer"][i]) <= 5
    /\ (calc.last.credential = "bearer" /\ calc.last.status = 429) =>
         calc.last.retry_after >= 0

\* the rule-based score of the create_test_data learner has been computed
FixturePoints == calc.fn = "points" /\ calc.done /\ calc.row = FixtureAssessment

\* C26: for the learner and the three tutors of create_test_data the
\* rule-based cognitive score out of 8 is 8 for the Perfect Match Tutor, 4 for
\* the Good Match Tutor and 0 for the Poor Match Tutor.
C26_ExpectedFixtureScores ==
  FixturePoints =>
    /\ calc.pedagogy = PerfectPedagogy => calc.out = 8
    /\ calc.pedagogy = GoodPedagogy => calc.out = 4
    /\ calc.pedagogy = PoorPedagogy => calc.out = 0

\* C27: every compatibility_score returned in a match lies in [0,100]: on the
\* fallback path cognitive_score * 10 + subject_score stays within 0..100, and
\* on the collaborator path a final_score outside 0..100 is not passed through.
C27_CompatibilityScoreRange ==
  (calc.fn = "final" /\ calc.done) =>
    \A i \in DOMAIN calc.response.matches :
      /\ 0 <= calc.response.matches[i].compatibility_score
      /\ calc.response.matches[i].compatibility_score <= 10000

\* the verify_otp calls that returned True
Accepted == {i \in DOMAIN calc.returned : calc.returned[i].value}

\* C28: each OTP is accepted at most once: of any interleaving of verify_otp
\* calls with the same (verification_id, code, use_for) at most one returns
\* True, and none returns True at or after expires_at.
C28_OtpAcceptedOnce ==
  calc.fn = "otp" =>
    /\ Cardinality(Accepted) <= 1
    /\ \A i \in Accepted : calc.returned[i].at < ExpiresAt

\* C29: after any interleaving of payment webhooks and status polls each
\* teacher has at most one UserSubscription with status ACTIVE.
C29_OneActiveSubscription ==
  calc.fn = "pay" => Cardinality({o \in Orders : calc.sub[o] = "ACTIVE"}) <= 1

\* C30: once a payment is CHARGED no webhook or poll changes it to PENDING or
\* AUTHENTICATION_FAILED (the only way out of CHARGED is REFUNDED), so a
\* payment's subscription is never ACTIVE while the payment is recorded as
\* failed.
C30_ChargedStaysCharged ==
  [][calc.fn = "pay" =>
       \A o \in Orders :
         /\ calc.payment[o] = "CHARGED" => calc'.payment[o] \in {"CHARGED", "REFUNDED"}
         /\ calc'.sub[o] = "ACTIVE" => calc'.payment[o] # "AUTHENTICATION_FAILED"]_vars

====
